---- MODULE Spec2Model ----
(***************************************************************************)
(* State-machine model of the exercises of the repository that keep state: *)
(* the to-do services of exercises 5-1-14, 5-2-14 and 9-2 with their Unit  *)
(* of Work and Repository, the global_template application, and the role   *)
(* based access control of exercise 4-3-11.                                *)
(*                                                                         *)
(* One application runs in a behaviour (variable app, chosen in Init); a   *)
(* request is handled from its first to its last statement in one step     *)
(* (spec section 5: one request at a time), which leaves in `last` what    *)
(* the request was and what the client and the database saw; the next      *)
(* request is taken once that response is delivered.                       *)
(***************************************************************************)
EXTENDS Integers, Sequences, FiniteSets, TLC

VARIABLES app, todos, users, added, tokens, now, last

vars == <<app, todos, users, added, tokens, now, last>>

\* ---------------------------------------------------------------- bounds
MaxId == 2

\* Python's None, where a string or a bool may stand; a missing row is the
\* empty set of rows, a missing session the id 0
None == "None"
NoRow == {}
NoSession == 0
Bool == {"True", "False"}

Ids == 1..MaxId
Times == {0, 1}
Titles == {"t1", "t2"}
Descriptions == {"d1"}

\* ------------------------------------------------- pydantic schemas (5-x)
\* ToDoCreate: title: str, description: str, completed: bool | None = False
ToDoCreate == [title : Titles, description : Descriptions,
               completed : Bool \cup {None}]

\* ToDoUpdate: every field optional, None when not given
ToDoUpdate == [title : Titles \cup {None}, description : Descriptions \cup {None},
               completed : Bool \cup {None}]

\* model_dump(): the dict of the schema's fields
model_dump(m) == m

\* update_data = {k: v for k, v in model_dump().items() if v is not None}
update_data_of(u) == {k \in DOMAIN model_dump(u) : model_dump(u)[k] # None}

\* ToDoCreate of exercise 9-2: description: str, completed: bool | None = False
ToDoCreate92 == [description : Descriptions, completed : Bool \cup {None}]

\* ToDoFromDB.model_validate(row): the fields of ToDoCreate, id and created_at
\* read off the row
ToDoFromDB(row) ==
    [k \in (DOMAIN row) \cap {"id", "title", "description", "completed", "created_at"}
        |-> row[k]]

\* ------------------------------------------------------- HTTP responses
Response(status, body) == [status |-> status, body |-> body]

\* HTTPException(status_code, detail) as the client sees it
HTTPException(status, detail) == Response(status, detail)

\* --------------------------------------------- session and transaction
\* A request context: db is the committed table, view what the session's
\* open transaction sees, session the id of the UnitOfWork's session (None
\* before one is made), todo the session the repository is bound to, made
\* the number of sessions the factory produced, log the calls the session
\* received, exc the exception in flight, ret the value last returned.
Call(c, name) == [c EXCEPT !.log = Append(@, name)]

Raise(c, e) == [c EXCEPT !.exc = e]

\* AsyncSession.commit(): makes the transaction's writes durable; when the
\* database refuses, the writes are lost and the error is raised
Session_commit(c, fails) ==
    IF fails THEN Raise([Call(c, "commit") EXCEPT !.view = c.db], "DBAPIError")
    ELSE [Call(c, "commit") EXCEPT !.db = c.view]

\* AsyncSession.rollback(): discards what was not committed
Session_rollback(c) == [Call(c, "rollback") EXCEPT !.view = c.db]

\* AsyncSession.close(): releases the connection, discarding an open transaction
Session_close(c) == [Call(c, "close") EXCEPT !.view = c.db]

RowOf(tbl, id) == CHOOSE r \in tbl : r.id = id

HasRow(tbl, id) == \E r \in tbl : r.id = id

\* ---------------------------------------------------- Repository (5-x)
\* insert(model).values(**data).returning(model): id comes from the table's
\* sequence, created_at from the column default (the clock); completed is
\* NOT NULL, so an explicit None is refused by the database
Repository_add_one(c, data, newid, t, refused) ==
    IF data.completed = None \/ refused
    THEN Raise(Call(c, "execute"), "IntegrityError")
    ELSE LET row == [k \in (DOMAIN data) \cup {"id", "created_at"} |->
                        IF k = "id" THEN newid
                        ELSE IF k = "created_at" THEN t ELSE data[k]]
         IN  [Call(c, "execute") EXCEPT !.view = @ \cup {row}, !.ret = {row}]

\* select(model).where(model.id == record_id) ... scalar_one_or_none():
\* the rows with that id, none or one
Repository_find_one(c, record_id) ==
    [Call(c, "execute") EXCEPT
        !.ret = {r \in c.view : r.id = record_id}]

\* select(model) ... scalars().all()
Repository_find_all(c) == [Call(c, "execute") EXCEPT !.ret = c.view]

\* update(model).where(model.id == record_id).values(**data).returning(model)
Repository_update(c, record_id, u) ==
    IF ~HasRow(c.view, record_id) THEN [Call(c, "execute") EXCEPT !.ret = NoRow]
    ELSE LET old == RowOf(c.view, record_id)
             new == [k \in DOMAIN old |->
                        IF k \in update_data_of(u) THEN u[k] ELSE old[k]]
         IN  [Call(c, "execute") EXCEPT
                 !.view = (@ \ {old}) \cup {new}, !.ret = {new}]

\* delete(model).where(model.id == record_id).returning(model.id);
\* returns deleted_id is not None
Repository_delete(c, record_id) ==
    IF HasRow(c.view, record_id)
    THEN [Call(c, "execute") EXCEPT
             !.view = @ \ {RowOf(c.view, record_id)}, !.ret = TRUE]
    ELSE [Call(c, "execute") EXCEPT !.ret = FALSE]

\* -------------------------------------------------- UnitOfWork (5-x)
\* The 5-1-11 and 5-2-14 variants make the session in __init__, the 9-2
\* variant in __aenter__.
SessionInInit == {"5-1-14", "5-2-14"}

UnitOfWork_init(variant, db) ==
    [db |-> db, view |-> db, log |-> <<>>, exc |-> None, ret |-> None,
     todo |-> NoSession,
     session |-> IF variant \in SessionInInit THEN 1 ELSE NoSession,
     made |-> IF variant \in SessionInInit THEN 1 ELSE 0]

UnitOfWork_aenter(variant, c) ==
    IF variant \in SessionInInit
    THEN [c EXCEPT !.todo = c.session]
    ELSE [c EXCEPT !.session = c.made + 1, !.made = c.made + 1,
                   !.todo = c.made + 1, !.view = c.db]

UnitOfWork_commit_Skipped(c, fails) == c

\* commit(): await self.session.commit()
UnitOfWork_commit(c, fails) == Session_commit(c, fails)

UnitOfWork_rollback(c) == Session_rollback(c)

\* __aexit__(*args): await self.rollback(); await self.session.close().
\* The exception of the block, if any, propagates (nothing is returned).
UnitOfWork_aexit(c) == Session_close(UnitOfWork_rollback(c))

\* ------------------------------------------------ ToDoService (5-x)
\* What a request leaves behind: the response, the committed table, the
\* session's calls, the exception the `async with` block ended with, and
\* whether the block's transaction held writes not yet committed when the
\* block ended.
Outcome(blockEnd, resp) ==
    LET final == UnitOfWork_aexit(blockEnd)
    IN  [resp |-> resp, db |-> final.db, log |-> final.log,
         blockExc |-> blockEnd.exc, dirty |-> blockEnd.view # blockEnd.db,
         session |-> final.session, made |-> final.made]

Enter(variant, db) == UnitOfWork_aenter(variant, UnitOfWork_init(variant, db))

\* add_todo of 5-1-14 and 5-2-14 (try/except Exception -> 500) and of 9-2
\* (no except: the framework answers 500)
add_todo(variant, db, todo, newid, t, refused, fails) ==
    LET c1 == Repository_add_one(Enter(variant, db), model_dump(todo), newid, t,
                                 refused)
        c2 == IF c1.exc # None THEN c1 ELSE UnitOfWork_commit(c1, fails)
    IN  Outcome(c2,
            IF c2.exc # None
            THEN HTTPException(500, IF variant = "9-2" THEN "Internal Server Error"
                                    ELSE "Failed to add ToDo")
            ELSE Response(IF variant = "9-2" THEN 200 ELSE 201,
                          ToDoFromDB(RowOf(c1.ret, newid))))

\* get_todos (5-1-14, 9-2)
get_todos(variant, db) ==
    LET c1 == Repository_find_all(Enter(variant, db))
    IN  Outcome(c1, Response(200, {ToDoFromDB(r) : r \in c1.ret}))

\* get_todo_by_id (5-1-14), get_todo (5-2-14)
get_todo_by_id(variant, db, todo_id) ==
    LET c1 == Repository_find_one(Enter(variant, db), todo_id)
    IN  IF c1.ret = NoRow
        THEN Outcome(Raise(c1, "HTTPException"),
                     HTTPException(404, "ToDo item not found"))
        ELSE Outcome(c1, Response(200, ToDoFromDB(RowOf(c1.ret, todo_id))))

\* update_todo (5-1-14 and 5-2-14)
update_todo(variant, db, todo_id, todo_data, fails) ==
    IF update_data_of(todo_data) = {}
    THEN get_todo_by_id(variant, db, todo_id)
    ELSE LET c1 == Repository_find_one(Enter(variant, db), todo_id)
             c2 == Repository_update(c1, todo_id, todo_data)
             c3 == UnitOfWork_commit(c2, fails)
             c4 == Repository_find_one(c3, todo_id)
         IN  IF c1.ret = NoRow
             THEN Outcome(Raise(c1, "HTTPException"),
                          HTTPException(404, "ToDo item not found"))
             ELSE IF c3.exc # None
             THEN Outcome(c3, HTTPException(500, "Internal Server Error"))
             ELSE Outcome(c4, Response(200, ToDoFromDB(RowOf(c4.ret, todo_id))))

\* delete_todo of 5-1-14: find_one, delete, commit
delete_todo_5_1_14(db, todo_id, fails) ==
    LET c1 == Repository_find_one(Enter("5-1-14", db), todo_id)
        c2 == Repository_delete(c1, todo_id)
        c3 == UnitOfWork_commit(c2, fails)
    IN  IF c1.ret = NoRow
        THEN Outcome(Raise(c1, "HTTPException"),
                     HTTPException(404, "ToDo item not found"))
        ELSE IF ~c2.ret
        THEN Outcome(Raise(c2, "HTTPException"),
                     HTTPException(400, "Failed to delete ToDo item"))
        ELSE IF c3.exc # None
        THEN Outcome(c3, HTTPException(500, "Internal Server Error"))
        ELSE Outcome(c3, Response(200, "ToDo item successfully deleted"))

\* delete_todo of 5-2-14: find_one, delete, then a second delete of the same
\* id; commit is not called
delete_todo_5_2_14(db, todo_id) ==
    LET c1 == Repository_find_one(Enter("5-2-14", db), todo_id)
        c2 == Repository_delete(c1, todo_id)
        c3 == Repository_delete(c2, todo_id)
    IN  IF c1.ret = NoRow
        THEN Outcome(Raise(c1, "HTTPException"),
                     HTTPException(404, "ToDo item not found"))
        ELSE IF ~c2.ret
        THEN Outcome(Raise(c2, "HTTPException"),
                     HTTPException(400, "Failed to delete ToDo item"))
        ELSE Outcome(c3, Response(200, "ToDo item successfully deleted"))

\* ------------------------------- exception classes (global_template)
\* The class statements of app/exceptions: each class with its base and the
\* attributes its body sets.
ExceptionClasses ==
    [AppBaseException |->
        [base |-> "Exception", status_code |-> {500}, error_code |-> {"app_error"}],
     DBException |->
        [base |-> "AppBaseException", status_code |-> {500}, error_code |-> {"db_error"}],
     DBConnectionError |->
        [base |-> "DBException", status_code |-> {503},
         error_code |-> {"db_connection_error"}],
     DBRecordNotFound |->
        [base |-> "DBException", status_code |-> {404},
         error_code |-> {"db_record_not_found"}],
     DBAlreadyExistsError |->
        [base |-> "DBException", status_code |-> {409},
         error_code |-> {"db_already_exists"}],
     DBValidationError |->
        [base |-> "DBException", status_code |-> {422},
         error_code |-> {"db_validation_error"}],
     DBIntegrityError |->
        [base |-> "DBException", status_code |-> {400},
         error_code |-> {"db_integrity_error"}],
     ToDoException |->
        [base |-> "AppBaseException", status_code |-> {500},
         error_code |-> {"todo_error"}],
     ToDoNotFoundError |->
        [base |-> "ToDoException", status_code |-> {404},
         error_code |-> {"todo_not_found"}],
     ToDoAlreadyExistsError |->
        [base |-> "ToDoException", status_code |-> {409},
         error_code |-> {"todo_already_exists"}],
     ToDoValidationError |->
        [base |-> "ToDoException", status_code |-> {422},
         error_code |-> {"todo_validation_error"}],
     ToDoIntegrityError |->
        [base |-> "ToDoException", status_code |-> {400},
         error_code |-> {"todo_integrity_error"}],
     UserException |->
        [base |-> "AppBaseException", status_code |-> {500},
         error_code |-> {"user_error"}],
     UserNotFoundError |->
        [base |-> "UserException", status_code |-> {404},
         error_code |-> {"user_not_found"}],
     UserAlreadyExistsError |->
        [base |-> "UserException", status_code |-> {409},
         error_code |-> {"user_already_exists"}],
     UserValidationError |->
        [base |-> "UserException", status_code |-> {422},
         error_code |-> {"user_validation_error"}],
     UserIntegrityError |->
        [base |-> "UserException", status_code |-> {400},
         error_code |-> {"user_integrity_error"}],
     TagException |->
        [base |-> "AppBaseException", status_code |-> {500},
         error_code |-> {"tag_error"}],
     TagNotFoundError |->
        [base |-> "TagException", status_code |-> {404},
         error_code |-> {"tag_not_found"}],
     TagAlreadyExistsError |->
        [base |-> "TagException", status_code |-> {409},
         error_code |-> {"tag_already_exists"}],
     TagValidationError |->
        [base |-> "TagException", status_code |-> {422},
         error_code |-> {"tag_validation_error"}],
     TagIntegrityError |->
        [base |-> "TagException", status_code |-> {400},
         error_code |-> {"tag_integrity_error"}],
     UserProfileException |->
        [base |-> "AppBaseException", status_code |-> {500},
         error_code |-> {"userprofile_error"}],
     UserProfileNotFoundError |->
        [base |-> "UserProfileException", status_code |-> {404},
         error_code |-> {"userprofile_not_found"}],
     UserProfileAlreadyExistsError |->
        [base |-> "UserProfileException", status_code |-> {409},
         error_code |-> {"userprofile_already_exists"}],
     UserProfileValidationError |->
        [base |-> "UserProfileException", status_code |-> {422},
         error_code |-> {"userprofile_validation_error"}],
     UserProfileIntegrityError |->
        [base |-> "UserProfileException", status_code |-> {400},
         error_code |-> {"userprofile_integrity_error"}]]

AppClasses == DOMAIN ExceptionClasses

\* exceptions of the libraries and of Python that the model raises
ForeignExceptions ==
    {"HTTPException", "RuntimeError", "TypeError", "IntegrityError",
     "CompileError", "DBAPIError", "ValidationError"}

\* attribute lookup along the base classes (the method resolution order):
\* the class's own attribute, or else its base's
RECURSIVE ClassAttr(_, _)
ClassAttr(cls, attr) ==
    IF cls \notin AppClasses THEN {}
    ELSE IF ExceptionClasses[cls][attr] # {} THEN ExceptionClasses[cls][attr]
    ELSE ClassAttr(ExceptionClasses[cls].base, attr)

\* isinstance(exc, AppBaseException)
RECURSIVE IsAppBaseException(_)
IsAppBaseException(cls) ==
    /\ cls \in AppClasses
    /\ \/ cls = "AppBaseException"
       \/ IsAppBaseException(ExceptionClasses[cls].base)

\* AppBaseException.__init__: message_key or self.message_key (the class's
\* own key is written "errors.<class>"); status_code and error_code stay
\* the class's
AppException(cls, message_key) ==
    [cls |-> cls,
     message_key |-> IF message_key = None THEN "errors." \o cls ELSE message_key,
     status_code |-> CHOOSE v \in ClassAttr(cls, "status_code") : TRUE,
     error_code |-> CHOOSE v \in ClassAttr(cls, "error_code") : TRUE]

app_exception_handler_Fixed500(exc) ==
    IF IsAppBaseException(exc.cls)
    THEN Response(500,
                  [status_code |-> 500, message |-> exc.message_key,
                   error_code |-> exc.error_code])
    ELSE Response(500, "Internal Server Error")

\* app_exception_handler: ErrorResponseModel(status_code, message, error_code)
\* as the JSON body, exc.status_code as the HTTP status; any other exception
\* is raised again and the framework answers 500
app_exception_handler(exc) ==
    IF IsAppBaseException(exc.cls)
    THEN Response(exc.status_code,
                  [status_code |-> exc.status_code, message |-> exc.message_key,
                   error_code |-> exc.error_code])
    ELSE Response(500, "Internal Server Error")

\* ------------------------------------------- global_template: schemas
NoId == 0

Email(i) == "e" \o ToString(i)
Username(i) == "u" \o ToString(i)
Emails == {Email(i) : i \in Ids}
Usernames == {Username(i) : i \in Ids}

\* ToDoCreate(ToDoBase): title, description = None, completed = False,
\* user_id, tag_ids = []
GTToDoCreate == [title : Titles, description : {None}, completed : Bool,
                 user_id : Ids, tag_ids : {"[]", None}]

\* ToDoUpdate: title, description, completed, user_id, tag_ids, all optional.
\* The payloads vary a plain column (title), the foreign key (user_id) and
\* the field that is no column (tag_ids); description and completed are
\* plain columns like title and stay unset.
GTToDoUpdate == [title : {"t2", None}, description : {None},
                 completed : {None}, user_id : Ids \cup {NoId},
                 tag_ids : {"[1]", None}]

\* UserCreate(UserBase): username, email, password
UserCreate == [username : Usernames, email : Emails, password : {"pw"}]

\* UserUpdate: username, email, password, all optional. The payloads vary
\* a unique column (email) and the field that is no column (password);
\* username is a unique column like email and stays unset.
UserUpdate == [username : {None}, email : Emails \cup {None},
               password : {"pw", None}]

\* how Python's None is written in a field of the model
NoneValue(k) == IF k = "user_id" THEN NoId ELSE None

\* {k: v for k, v in model_dump().items() if v is not None}
update_data(u) ==
    LET keys == {k \in DOMAIN model_dump(u) : model_dump(u)[k] # NoneValue(k)}
    IN  [k \in keys |-> model_dump(u)[k]]

\* ---------------------------------------- global_template: ORM models
\* the attributes of the mapped classes (columns and relationships): the
\* declarative constructor accepts these keywords only
ModelAttrs ==
    [todos |-> {"id", "created_at", "updated_at", "title", "description",
                "completed", "user_id", "user", "tags"},
     users |-> {"id", "created_at", "updated_at", "username", "email",
                "todos", "profile"}]

\* the columns a row of the model keeps
RowColumns ==
    [todos |-> {"id", "created_at", "title", "description", "completed", "user_id"},
     users |-> {"id", "username", "email"}]

ColumnDefault(k) == IF k = "completed" THEN "False" ELSE None

\* the constraints of the schema: todos.user_id references users.id,
\* users.username and users.email are unique
Consistent(view) ==
    /\ \A t \in view.todos : \E u \in view.users : u.id = t.user_id
    /\ \A u1, u2 \in view.users :
          u1 # u2 => u1.username # u2.username /\ u1.email # u2.email

\* ------------------------------------- global_template: BaseRepository
\* obj = self.model(**obj_data); self.session.add(obj); await flush()
BaseRepository_add_one(c, table, obj_data, newid, t) ==
    IF ~(DOMAIN obj_data \subseteq ModelAttrs[table])
    THEN Raise(c, "TypeError")
    ELSE LET row == [k \in RowColumns[table] |->
                        IF k = "id" THEN newid
                        ELSE IF k = "created_at" THEN t
                        ELSE IF k \in DOMAIN obj_data THEN obj_data[k]
                        ELSE ColumnDefault(k)]
             view == [c.view EXCEPT ![table] = @ \cup {row}]
         IN  IF Consistent(view)
             THEN [Call(c, "flush") EXCEPT !.view = view, !.ret = {row}]
             ELSE Raise(Call(c, "flush"), "IntegrityError")

\* select(self.model) ... scalars().all()
BaseRepository_get_all(c, table) ==
    [Call(c, "execute") EXCEPT !.ret = c.view[table]]

\* select(self.model).where(self.model.id == obj_id) ... scalars().first()
BaseRepository_get_by_id(c, table, obj_id) ==
    [Call(c, "execute") EXCEPT !.ret = {r \in c.view[table] : r.id = obj_id}]

\* sa_update(self.model).where(id == obj_id).values(**update_data)
BaseRepository_update(c, table, obj_id, data) ==
    IF ~(DOMAIN data \subseteq RowColumns[table])
    THEN Raise(c, "CompileError")
    ELSE LET rows == {[k \in DOMAIN r |->
                          IF r.id = obj_id /\ k \in DOMAIN data THEN data[k] ELSE r[k]]
                      : r \in c.view[table]}
             view == [c.view EXCEPT ![table] = rows]
         IN  IF Consistent(view)
             THEN [Call(c, "execute") EXCEPT !.view = view]
             ELSE Raise(Call(c, "execute"), "IntegrityError")

\* sa_delete(self.model).where(id == obj_id); returns result.rowcount > 0
BaseRepository_delete(c, table, obj_id) ==
    LET view == [c.view EXCEPT ![table] = {r \in @ : r.id # obj_id}]
    IN  IF Consistent(view)
        THEN [Call(c, "execute") EXCEPT
                 !.view = view, !.ret = HasRow(c.view[table], obj_id)]
        ELSE Raise(Call(c, "execute"), "IntegrityError")

\* UserRepository.get_by_email: select ... where email == obj_email, first()
UserRepository_get_by_email(c, obj_email) ==
    [Call(c, "execute") EXCEPT !.ret = {r \in c.view.users : r.email = obj_email}]

\* ----------------------------------------- global_template: UnitOfWork
Repos == {"todo", "user", "userprofile", "tag"}

\* __init__: no session, no repository
GT_init(db) ==
    [db |-> db, view |-> db, log |-> <<>>, exc |-> None, ret |-> None,
     session |-> NoSession, made |-> 0,
     todo |-> NoSession, user |-> NoSession, userprofile |-> NoSession,
     tag |-> NoSession]

\* _get_repo: the repository, or RuntimeError when it is None
GT_get_repo(c, name) ==
    IF c[name] = NoSession THEN Raise(c, "RuntimeError") ELSE c

\* _clear_repos
GT_clear_repos(c) ==
    [c EXCEPT !.todo = NoSession, !.user = NoSession,
              !.userprofile = NoSession, !.tag = NoSession]

\* __aenter__: a new session from the factory, a repository of each kind on it
GT_aenter(c) ==
    LET sid == c.made + 1
    IN  [c EXCEPT !.session = sid, !.made = sid, !.view = c.db,
                  !.todo = sid, !.user = sid, !.userprofile = sid, !.tag = sid]

\* commit(): RuntimeError without a session, else session.commit()
GT_commit(c, fails) ==
    IF c.session = NoSession THEN Raise(c, "RuntimeError")
    ELSE Session_commit(c, fails)

\* rollback(): RuntimeError without a session, else session.rollback()
GT_rollback(c) ==
    IF c.session = NoSession THEN Raise(c, "RuntimeError")
    ELSE Session_rollback(c)

GT_aexit_AlwaysCommits(c, fails) ==
    IF c.session = NoSession THEN c
    ELSE GT_clear_repos([Session_close(Session_commit(c, fails))
                            EXCEPT !.session = NoSession])

GT_aexit_with_NoFinally(c, commitFails, rollbackFails) ==
    IF c.session = NoSession THEN c
    ELSE IF c.exc # None /\ rollbackFails THEN Raise(Session_rollback(c), "DBAPIError")
    ELSE IF c.exc = None /\ commitFails THEN Session_commit(c, commitFails)
    ELSE GT_clear_repos(
             [Session_close(IF c.exc # None THEN Session_rollback(c)
                            ELSE Session_commit(c, commitFails))
                 EXCEPT !.session = NoSession])

\* __aexit__: nothing without a session; else rollback when the block raised
\* and commit when it did not; finally close, drop the session and the
\* repositories. The block's exception propagates, as does a failed commit
\* or a failed rollback.
GT_aexit_with(c, commitFails, rollbackFails) ==
    IF c.session = NoSession THEN c
    ELSE LET c1 == IF c.exc # None
                   THEN IF rollbackFails
                        THEN Raise(Session_rollback(c), "DBAPIError")
                        ELSE Session_rollback(c)
                   ELSE Session_commit(c, commitFails)
         IN  GT_clear_repos([Session_close(c1) EXCEPT !.session = NoSession])

\* __aexit__ at the end of a request: the rollback of a failed block is
\* taken to succeed
GT_aexit(c, fails) == GT_aexit_with(c, fails, FALSE)

\* ------------------------------------------- global_template: services
\* the entity a service works on: its table, its repository accessor and
\* the exceptions it raises
ToDoEntity == [table |-> "todos", repo |-> "todo",
               NotFound |-> "ToDoNotFoundError",
               Integrity |-> "ToDoIntegrityError"]

UserEntity == [table |-> "users", repo |-> "user",
               NotFound |-> "UserNotFoundError",
               Integrity |-> "UserIntegrityError"]

\* the response of the framework to an exception leaving the endpoint:
\* AppBaseException goes to app_exception_handler, HTTPException carries its
\* own status (the services raise it with 500 only), anything else is 500
Framework(raised) ==
    IF raised \in AppClasses
    THEN app_exception_handler(AppException(raised, None))
    ELSE IF raised = "HTTPException" THEN HTTPException(500, "Failed")
    ELSE Response(500, "Internal Server Error")

\* self.uow.<repo>: the accessor raises before the repository is called
OnRepo(c, name, called) ==
    IF c.exc # None THEN c
    ELSE IF GT_get_repo(c, name).exc # None THEN GT_get_repo(c, name)
    ELSE called

\* Schema.model_validate(obj): reads the relationships of the row too, which
\* the ORM may refuse to load
Validate(c, validates) ==
    IF c.exc # None \/ validates THEN c ELSE Raise(c, "ValidationError")

\* what a request leaves behind (see Outcome); raised is the exception
\* that left the service, repos the sessions the accessors still hold,
\* exitLog the calls the session received from __aexit__
GT_Outcome(blockEnd, final, raised, okResp) ==
    [resp |-> IF raised = None THEN okResp ELSE Framework(raised),
     db |-> final.db, log |-> final.log, blockExc |-> blockEnd.exc,
     dirty |-> blockEnd.view # blockEnd.db,
     session |-> final.session, made |-> final.made, raised |-> raised,
     repos |-> {final[r] : r \in Repos},
     exitLog |-> SubSeq(final.log, Len(blockEnd.log) + 1, Len(final.log))]

\* try: ... except IntegrityError -> <Entity>IntegrityError
\*          except Exception -> HTTPException(500)
TryExcept(E, exc) ==
    IF exc = None THEN None
    ELSE IF exc = "IntegrityError" THEN E.Integrity
    ELSE "HTTPException"

\* the exception an `async with` statement ends with: the block's, or the
\* one __aexit__ raised
WithExc(blockEnd, final) ==
    IF blockEnd.exc # None THEN blockEnd.exc ELSE final.exc

\* get_todo_by_id / get_user_by_id
Service_get_by_id(db, E, obj_id, fails, validates) ==
    LET c0 == GT_aenter(GT_init(db))
        c1 == OnRepo(c0, E.repo, BaseRepository_get_by_id(c0, E.table, obj_id))
        c2 == IF c1.exc = None /\ c1.ret = NoRow THEN Raise(c1, E.NotFound)
              ELSE Validate(c1, validates)
        final == GT_aexit(c2, fails)
    IN  GT_Outcome(c2, final, WithExc(c2, final),
                   Response(200, {r.id : r \in c1.ret}))

\* get_all_todos / get_all_users
Service_get_all(db, E, fails, validates) ==
    LET c0 == GT_aenter(GT_init(db))
        c1 == OnRepo(c0, E.repo, BaseRepository_get_all(c0, E.table))
        c2 == Validate(c1, validates)
        final == GT_aexit(c2, fails)
    IN  GT_Outcome(c2, final, WithExc(c2, final),
                   Response(200, {r.id : r \in c1.ret}))

\* the `async with` block of create_todo / create_user
Service_add(db, E, obj_data, newid, t, fails, validates) ==
    LET c0 == GT_aenter(GT_init(db))
        c1 == OnRepo(c0, E.repo,
                     BaseRepository_add_one(c0, E.table, obj_data, newid, t))
        c2 == IF c1.exc # None THEN c1 ELSE GT_commit(c1, fails)
        c3 == Validate(c2, validates)
        final == GT_aexit(c3, FALSE)
    IN  GT_Outcome(c3, final, TryExcept(E, WithExc(c3, final)),
                   Response(201, {newid}))

\* ToDoService.create_todo
create_todo(db, todo_create, newid, t, fails, validates) ==
    Service_add(db, ToDoEntity, model_dump(todo_create), newid, t, fails, validates)

\* UserService.create_user: the email is looked up through self.uow.user
\* before the `async with` block is entered
create_user(db, user_create, newid, t, fails, validates) ==
    LET c0 == GT_init(db)
        c1 == OnRepo(c0, "user",
                     UserRepository_get_by_email(c0, model_dump(user_create).email))
    IN  IF c1.exc # None THEN GT_Outcome(c1, c1, c1.exc, Response(201, {}))
        ELSE IF c1.ret # NoRow
        THEN GT_Outcome(c1, c1, "UserAlreadyExistsError", Response(201, {}))
        ELSE Service_add(db, UserEntity, model_dump(user_create), newid, t,
                         fails, validates)

\* update_todo / update_user
Service_update(db, E, obj_id, update, fails, validates) ==
    IF DOMAIN update_data(update) = {}
    THEN Service_get_by_id(db, E, obj_id, fails, validates)
    ELSE LET c0 == GT_aenter(GT_init(db))
             c1 == OnRepo(c0, E.repo, BaseRepository_get_by_id(c0, E.table, obj_id))
             c2 == IF c1.exc = None /\ c1.ret = NoRow THEN Raise(c1, E.NotFound)
                   ELSE c1
             c3 == OnRepo(c2, E.repo,
                      BaseRepository_update(c2, E.table, obj_id, update_data(update)))
             c4 == IF c3.exc # None THEN c3 ELSE GT_commit(c3, fails)
             c5 == OnRepo(c4, E.repo, BaseRepository_get_by_id(c4, E.table, obj_id))
             c6 == Validate(c5, validates)
             final == GT_aexit(c6, FALSE)
         IN  GT_Outcome(c6, final, TryExcept(E, WithExc(c6, final)),
                        Response(200, {obj_id}))

Service_delete_Unchecked(db, E, obj_id, fails) ==
    LET c0 == GT_aenter(GT_init(db))
        c3 == OnRepo(c0, E.repo, BaseRepository_delete(c0, E.table, obj_id))
        c4 == IF c3.exc = None /\ ~c3.ret THEN Raise(c3, "DBException") ELSE c3
        c5 == IF c4.exc # None THEN c4 ELSE GT_commit(c4, fails)
        final == GT_aexit(c5, FALSE)
    IN  GT_Outcome(c5, final, WithExc(c5, final), Response(204, {}))

\* delete_todo / delete_user
Service_delete(db, E, obj_id, fails) ==
    LET c0 == GT_aenter(GT_init(db))
        c1 == OnRepo(c0, E.repo, BaseRepository_get_by_id(c0, E.table, obj_id))
        c2 == IF c1.exc = None /\ c1.ret = NoRow THEN Raise(c1, E.NotFound)
              ELSE c1
        c3 == OnRepo(c2, E.repo, BaseRepository_delete(c2, E.table, obj_id))
        c4 == IF c3.exc = None /\ ~c3.ret THEN Raise(c3, "DBException") ELSE c3
        c5 == IF c4.exc # None THEN c4 ELSE GT_commit(c4, fails)
        final == GT_aexit(c5, FALSE)
    IN  GT_Outcome(c5, final, WithExc(c5, final), Response(204, {}))

\* ------------------------------------------------------------ requests
Apps5 == {"5-1-14", "5-2-14", "9-2"}

\* the record a request leaves in `last`: changed tells whether the committed
\* table differs from the one the request found
Done(op, id, before, out) ==
    [op |-> op, id |-> id, existed |-> HasRow(before, id),
     changed |-> out.db # before,
     status |-> out.resp.status, body |-> out.resp.body, log |-> out.log,
     blockExc |-> out.blockExc, dirty |-> out.dirty,
     session |-> out.session, made |-> out.made]

\* no response is in flight: the server takes the next request
Idle == last.op = "none"

FreeIds(tbl) == Ids \ {r.id : r \in tbl}

\* POST /todos/ (5-1-14, 5-2-14)
AddTodo ==
    /\ Idle
    /\ app \in {"5-1-14", "5-2-14"}
    /\ \E todo \in ToDoCreate, newid \in FreeIds(todos), t \in Times,
          fails \in BOOLEAN :
          LET out == add_todo(app, todos, todo, newid, t, FALSE, fails)
          IN  /\ todos' = out.db
              /\ last' = Done("add_todo", newid, todos, out)
              /\ added' = IF out.resp.status = 201
                           THEN [added EXCEPT ![newid] =
                                    {[ret |-> out.resp.body, payload |-> todo]}]
                           ELSE added
    /\ UNCHANGED <<app, users, tokens, now>>

\* POST /todos/ (9-2): the row has no title, and its created_at default is
\* datetime.UTC, a tzinfo, which the driver may refuse to bind
AddTodo92 ==
    /\ Idle
    /\ app = "9-2"
    /\ \E todo \in ToDoCreate92, newid \in FreeIds(todos), t \in Times,
          refused \in BOOLEAN, fails \in BOOLEAN :
          LET out == add_todo(app, todos, todo, newid, t, refused, fails)
          IN  /\ todos' = out.db
              /\ last' = Done("add_todo", newid, todos, out)
    /\ UNCHANGED <<app, users, tokens, now, added>>

\* GET /todos/
GetTodos ==
    /\ Idle
    /\ app \in {"5-1-14", "9-2"}
    /\ LET out == get_todos(app, todos)
       IN  /\ todos' = out.db
           /\ last' = Done("get_todos", 0, todos, out)
    /\ UNCHANGED <<app, users, tokens, now, added>>

\* GET /todos/{todo_id}
GetTodo ==
    /\ Idle
    /\ app \in {"5-1-14", "5-2-14"}
    /\ \E todo_id \in Ids :
          LET out == get_todo_by_id(app, todos, todo_id)
          IN  /\ todos' = out.db
              /\ last' = Done("get_todo_by_id", todo_id, todos, out)
    /\ UNCHANGED <<app, users, tokens, now, added>>

\* PUT /todos/{todo_id}
UpdateTodo ==
    /\ Idle
    /\ app \in {"5-1-14", "5-2-14"}
    /\ \E todo_id \in Ids, todo_data \in ToDoUpdate, fails \in BOOLEAN :
          LET out == update_todo(app, todos, todo_id, todo_data, fails)
          IN  /\ todos' = out.db
              /\ last' = Done("update_todo", todo_id, todos, out)
              /\ added' = [added EXCEPT ![todo_id] = {}]
    /\ UNCHANGED <<app, users, tokens, now>>

\* DELETE /todos/{todo_id} (5-1-14)
DeleteTodo514 ==
    /\ Idle
    /\ app = "5-1-14"
    /\ \E todo_id \in Ids, fails \in BOOLEAN :
          LET out == delete_todo_5_1_14(todos, todo_id, fails)
          IN  /\ todos' = out.db
              /\ last' = Done("delete_todo", todo_id, todos, out)
              /\ added' = [added EXCEPT ![todo_id] = {}]
    /\ UNCHANGED <<app, users, tokens, now>>

\* DELETE /todos/{todo_id} (5-2-14)
DeleteTodo5214 ==
    /\ Idle
    /\ app = "5-2-14"
    /\ \E todo_id \in Ids :
          LET out == delete_todo_5_2_14(todos, todo_id)
          IN  /\ todos' = out.db
              /\ last' = Done("delete_todo", todo_id, todos, out)
              /\ added' = [added EXCEPT ![todo_id] = {}]
    /\ UNCHANGED <<app, users, tokens, now>>

NoRequest ==
    [op |-> "none", id |-> 0, existed |-> FALSE, changed |-> FALSE,
     status |-> 0, body |-> None, log |-> <<>>, blockExc |-> None,
     dirty |-> FALSE, session |-> NoSession, made |-> 0]

\* the response goes out to the client and the request ends
Deliver ==
    /\ ~Idle
    /\ last' = NoRequest
    /\ UNCHANGED <<app, todos, users, added, tokens, now>>

\* ------------------------------------------- requests (global_template)
\* the database of the request: get_uow makes a UnitOfWork on it
GT_db == [todos |-> todos, users |-> users]

\* the record a request leaves in `last` (see Done); env tells that neither
\* the database nor the loading of relationships failed during the request
GT_Done(E, op, id, env, out) ==
    [op |-> op, id |-> id, existed |-> HasRow(GT_db[E.table], id),
     changed |-> out.db # GT_db,
     status |-> out.resp.status, body |-> out.resp.body, log |-> out.log,
     blockExc |-> out.blockExc, dirty |-> out.dirty,
     session |-> out.session, made |-> out.made,
     raised |-> out.raised, repos |-> out.repos, exitLog |-> out.exitLog,
     env |-> env]

\* the request's effect on the state
GT_Request(E, op, id, env, out) ==
    /\ Idle
    /\ app = "global_template"
    /\ todos' = out.db.todos
    /\ users' = out.db.users
    /\ last' = GT_Done(E, op, id, env, out)
    /\ UNCHANGED <<app, added, tokens, now>>

\* POST /todos/
CreateTodo ==
    \E todo \in GTToDoCreate, newid \in FreeIds(todos), t \in Times,
       fails \in BOOLEAN, validates \in BOOLEAN :
       GT_Request(ToDoEntity,
                  IF HasRow(users, todo.user_id)
                  THEN "create_todo" ELSE "create_todo_no_user", newid,
                  ~fails /\ validates,
                  create_todo(GT_db, todo, newid, t, fails, validates))

\* GET /todos/
GetAllTodos ==
    \E fails \in BOOLEAN, validates \in BOOLEAN :
       GT_Request(ToDoEntity, "get_all_todos", 0, ~fails /\ validates,
                  Service_get_all(GT_db, ToDoEntity, fails, validates))

\* GET /todos/{todo_id}
GetTodoById ==
    \E todo_id \in Ids, fails \in BOOLEAN, validates \in BOOLEAN :
       GT_Request(ToDoEntity, "get_todo_by_id", todo_id, ~fails /\ validates,
                  Service_get_by_id(GT_db, ToDoEntity, todo_id, fails, validates))

\* PUT /todos/{todo_id}
UpdateTodoGT ==
    \E todo_id \in Ids, todo_update \in GTToDoUpdate,
       fails \in BOOLEAN, validates \in BOOLEAN :
       GT_Request(ToDoEntity,
                  IF DOMAIN update_data(todo_update) = {}
                  THEN "update_todo_empty" ELSE "update_todo", todo_id,
                  ~fails /\ validates,
                  Service_update(GT_db, ToDoEntity, todo_id, todo_update,
                                 fails, validates))

\* DELETE /todos/{todo_id}
DeleteTodoGT ==
    \E todo_id \in Ids, fails \in BOOLEAN :
       GT_Request(ToDoEntity, "delete_todo", todo_id, ~fails,
                  Service_delete(GT_db, ToDoEntity, todo_id, fails))

\* POST /users/
CreateUser ==
    \E user \in UserCreate, newid \in FreeIds(users), t \in Times,
       fails \in BOOLEAN, validates \in BOOLEAN :
       GT_Request(UserEntity,
                  IF \E r \in users : r.email = user.email
                  THEN "create_user_dup" ELSE "create_user", newid,
                  ~fails /\ validates,
                  create_user(GT_db, user, newid, t, fails, validates))

\* GET /users/
GetAllUsers ==
    \E fails \in BOOLEAN, validates \in BOOLEAN :
       GT_Request(UserEntity, "get_all_users", 0, ~fails /\ validates,
                  Service_get_all(GT_db, UserEntity, fails, validates))

\* GET /users/{user_id}
GetUserById ==
    \E user_id \in Ids, fails \in BOOLEAN, validates \in BOOLEAN :
       GT_Request(UserEntity, "get_user_by_id", user_id, ~fails /\ validates,
                  Service_get_by_id(GT_db, UserEntity, user_id, fails, validates))

\* PUT /users/{user_id}
UpdateUser ==
    \E user_id \in Ids, user_update \in UserUpdate,
       fails \in BOOLEAN, validates \in BOOLEAN :
       GT_Request(UserEntity,
                  IF DOMAIN update_data(user_update) = {}
                  THEN "update_user_empty" ELSE "update_user", user_id,
                  ~fails /\ validates,
                  Service_update(GT_db, UserEntity, user_id, user_update,
                                 fails, validates))

\* DELETE /users/{user_id}
DeleteUser ==
    \E user_id \in Ids, fails \in BOOLEAN :
       GT_Request(UserEntity, "delete_user", user_id, ~fails,
                  Service_delete(GT_db, UserEntity, user_id, fails))

\* rows the database holds when the application starts
UserRow(i) == [id |-> i, username |-> Username(i), email |-> Email(i)]

ToDoRow(i, user_id) ==
    [id |-> i, created_at |-> 0, title |-> "t1", description |-> None,
     completed |-> "False", user_id |-> user_id]

InitGT ==
    /\ app = "global_template"
    /\ \E U \in SUBSET Ids : users = {UserRow(i) : i \in U}
    /\ \E T \in SUBSET Ids : \E owner \in [T -> Ids] :
          todos = {ToDoRow(i, owner[i]) : i \in T}
    /\ Consistent(GT_db)
    /\ added = [i \in Ids |-> {}]
    /\ tokens = {}
    /\ now = 0
    /\ last = NoRequest

NextGT ==
    \/ CreateTodo
    \/ GetAllTodos
    \/ GetTodoById
    \/ UpdateTodoGT
    \/ DeleteTodoGT
    \/ CreateUser
    \/ GetAllUsers
    \/ GetUserById
    \/ UpdateUser
    \/ DeleteUser
    \/ Deliver

SpecGT == InitGT /\ [][NextGT]_vars

Init5 ==
    /\ app \in Apps5
    /\ todos = {}
    /\ users = {}
    /\ added = [i \in Ids |-> {}]
    /\ tokens = {}
    /\ now = 0
    /\ last = NoRequest

Next5 ==
    \/ AddTodo
    \/ AddTodo92
    \/ GetTodos
    \/ GetTodo
    \/ UpdateTodo
    \/ DeleteTodo514
    \/ DeleteTodo5214
    \/ Deliver

Spec5 == Init5 /\ [][Next5]_vars

\* ------------------------------------- requests (delete_todo, all apps)
\* The to-do services that have delete_todo, side by side: the store is
\* filled by add_todo (5-1-14, 5-2-14) or holds the rows the application
\* started with (global_template).
InitDelete ==
    \/ Init5 /\ app \in {"5-1-14", "5-2-14"}
    \/ InitGT

NextDelete ==
    \/ AddTodo
    \/ DeleteTodo514
    \/ DeleteTodo5214
    \/ DeleteTodoGT
    \/ Deliver

SpecDelete == InitDelete /\ [][NextDelete]_vars

\* --------------------------------- requests (exception handler alone)
MessageKeys == {None, "errors.custom.a", "errors.custom.b", "errors.custom.c"}

\* an endpoint raises an application exception and the handler registered
\* for AppBaseException answers
RaiseAppException ==
    /\ Idle
    /\ app = "exceptions"
    /\ \E cls \in AppClasses, message_key \in MessageKeys :
          LET exc == AppException(cls, message_key)
              resp == app_exception_handler(exc)
          IN  last' = [op |-> "app_exception", cls |-> cls,
                       status |-> resp.status, body |-> resp.body]
    /\ UNCHANGED <<app, todos, users, added, tokens, now>>

InitExc ==
    /\ app = "exceptions"
    /\ todos = {}
    /\ users = {}
    /\ added = [i \in Ids |-> {}]
    /\ tokens = {}
    /\ now = 0
    /\ last = NoRequest

NextExc ==
    \/ RaiseAppException
    \/ Deliver

SpecExc == InitExc /\ [][NextExc]_vars

\* -------------------------------------------- 4-3-11: tokens and roles
SECRET_KEY == "mysecretkey"

EXPIRATION_TIME_SECONDS == 30

\* the clock stops at MaxNow; clients hold at most MaxTokens tokens
MaxNow == 60

MaxTokens == 2

\* seconds the clock advances in one step
Ticks == {15, 30}

\* class Role(Enum), by member name
Role == {"ADMIN", "USER", "GUEST"}

\* encode_password / verify_password: a hash checks against its own plain
\* text only
encode_password(password) == "hash:" \o password

verify_password(password, hashed) == hashed = encode_password(password)

USER_DATA ==
    [admin |-> [username |-> "admin", password |-> encode_password("admin"),
                role |-> "ADMIN"],
     user |-> [username |-> "user", password |-> encode_password("password"),
               role |-> "USER"],
     guest |-> [username |-> "guest", password |-> encode_password("12345"),
                role |-> "GUEST"]]

\* get_user: the user, or None (the empty set)
get_user(username) ==
    IF username \in DOMAIN USER_DATA THEN {USER_DATA[username]} ELSE {}

authenticate_user(username, password) ==
    {u \in get_user(username) : verify_password(password, u.password)}

get_exp(t) == t + EXPIRATION_TIME_SECONDS

\* jwt.encode(data, key): the claims, and the key the signature was made with
jwt_encode(data, key) ==
    [sub |-> data.sub, role |-> data.role, exp |-> data.exp, key |-> key,
     wellformed |-> TRUE]

create_jwt_token(user, t) ==
    jwt_encode([sub |-> user.username, role |-> user.role, exp |-> get_exp(t)],
               SECRET_KEY)

\* jwt.decode(token, key): DecodeError for what is no token,
\* InvalidSignatureError for another key's signature (both InvalidTokenError),
\* ExpiredSignatureError once exp is not after the clock
jwt_decode(token, key, t) ==
    IF ~token.wellformed \/ token.key # key THEN "InvalidTokenError"
    ELSE IF token.exp <= t THEN "ExpiredSignatureError"
    ELSE "payload"

\* get_authuser_from_token: the AuthUser, or the HTTPException raised
get_authuser_from_token(token, t) ==
    LET decoded == jwt_decode(token, SECRET_KEY, t)
    IN  IF decoded = "ExpiredSignatureError"
        THEN [user |-> {}, error |-> {HTTPException(401, "Token has expired")}]
        ELSE IF decoded = "InvalidTokenError"
        THEN [user |-> {}, error |-> {HTTPException(401, "Invalid token")}]
        ELSE IF token.role \notin Role
        THEN [user |-> {}, error |-> {Response(500, "Internal Server Error")}]
        ELSE [user |-> {[username |-> token.sub, role |-> token.role]},
              error |-> {}]

\* GET /admin/
get_admin_info(auth_user) ==
    IF auth_user.role # "ADMIN" THEN HTTPException(403, "Not authorized")
    ELSE Response(200, [message |-> "Hi admin " \o auth_user.username \o "!",
                        data |-> None])

\* GET /user/
get_user_info(auth_user) ==
    IF auth_user.role # "USER" THEN HTTPException(403, "Not authorized")
    ELSE Response(200, [message |-> "Hi user " \o auth_user.username \o "!",
                        data |-> None])

get_protected_info_AnyRole(auth_user) ==
    Response(200, [message |-> "Hi user " \o auth_user.username \o "!",
                   data |-> "sensitive data"])

\* GET /protected_resource/
get_protected_info(auth_user) ==
    IF auth_user.role \notin {"ADMIN", "USER"}
    THEN HTTPException(403, "Not authorized")
    ELSE Response(200, [message |-> "Hi user " \o auth_user.username \o "!",
                        data |-> "sensitive data"])

\* GET /info/
get_info(auth_user) ==
    Response(200, [message |-> "Hi " \o auth_user.username \o "!",
                   data |-> None])

Routes == {"/admin/", "/user/", "/protected_resource/", "/info/"}

\* Depends(get_authuser_from_token), then the route's function
Resource(route, token, t) ==
    LET auth == get_authuser_from_token(token, t)
        auth_user == CHOOSE u \in auth.user : TRUE
    IN  IF auth.error # {} THEN CHOOSE e \in auth.error : TRUE
        ELSE IF route = "/admin/" THEN get_admin_info(auth_user)
        ELSE IF route = "/user/" THEN get_user_info(auth_user)
        ELSE IF route = "/protected_resource/" THEN get_protected_info(auth_user)
        ELSE get_info(auth_user)

\* ------------------------------------------------- requests (4-3-11)
\* the tokens a client can make up without the key: signed with a key of
\* its own for any role, or no token at all
Forged(t) ==
    {jwt_encode([sub |-> "guest", role |-> r, exp |-> get_exp(t)], "otherkey")
        : r \in Role}
    \cup {[sub |-> "", role |-> "", exp |-> 0, key |-> "", wellformed |-> FALSE]}

\* POST /login
Login ==
    /\ Idle
    /\ app = "4-3-11"
    /\ Cardinality(tokens) < MaxTokens
    /\ \E username \in {"admin", "user", "guest", "nobody"},
          password \in {"admin", "password", "12345"} :
          LET authenticated_user == authenticate_user(username, password)
              token == create_jwt_token(CHOOSE u \in authenticated_user : TRUE, now)
          IN  IF authenticated_user = {}
              THEN /\ last' = [op |-> "login", status |-> 401,
                               body |-> "Invalid credentials"]
                   /\ tokens' = tokens
              ELSE /\ last' = [op |-> "login", status |-> 200, body |-> token]
                   /\ tokens' = tokens \cup {token}
    /\ UNCHANGED <<app, todos, users, added, now>>

\* GET on one of the four routes with a token the client holds or made up
GetResource ==
    /\ Idle
    /\ app = "4-3-11"
    /\ \E route \in Routes, token \in tokens \cup Forged(now) :
          LET resp == Resource(route, token, now)
          IN  last' = [op |-> route, token |-> token, at |-> now,
                       status |-> resp.status, body |-> resp.body]
    /\ UNCHANGED <<app, todos, users, added, tokens, now>>

\* a client drops a token
Discard ==
    /\ Idle
    /\ \E token \in tokens : tokens' = tokens \ {token}
    /\ UNCHANGED <<app, todos, users, added, now, last>>

\* time passes
Tick ==
    /\ Idle
    /\ app = "4-3-11"
    /\ \E d \in Ticks : now + d <= MaxNow /\ now' = now + d
    /\ UNCHANGED <<app, todos, users, added, tokens, last>>

InitRBAC ==
    /\ app = "4-3-11"
    /\ todos = {}
    /\ users = {}
    /\ added = [i \in Ids |-> {}]
    /\ tokens = {}
    /\ now = 0
    /\ last = NoRequest

NextRBAC ==
    \/ Login
    \/ GetResource
    \/ Discard
    \/ Tick
    \/ Deliver

SpecRBAC == InitRBAC /\ [][NextRBAC]_vars

\* ---------------------------------------------------------- properties
\* C1: global_template UnitOfWork: for every `async with uow` block, when
\* the block ends without an exception the exit commits the session, when
\* it ends with an exception the exit rolls the session back and does not
\* commit it, and in both cases the exit closes the session afterwards
\* (and drops its reference to it).
C1_ExitCommitsOrRollsBack ==
    (app = "global_template" /\ last.op # "none" /\ last.made > 0) =>
        /\ last.exitLog = IF last.blockExc = None THEN <<"commit", "close">>
                          ELSE <<"rollback", "close">>
        /\ last.session = NoSession

\* a block that raised (update of a missing id) was rolled back and closed
C1_Witness ==
    /\ app = "global_template"
    /\ last.op = "update_todo"
    /\ last.made > 0
    /\ last.blockExc = "ToDoNotFoundError"
    /\ last.exitLog = <<"rollback", "close">>

\* C2: Unit of Work of 5-1-11, 5-2-14 and 9-2: whenever the `async with
\* uow` block ends without an exception, the writes made inside it are
\* committed (nothing written in the block is still uncommitted when the
\* exit discards the transaction), and the session is closed at the end.
C2_ExitCommitsWrites ==
    (app \in Apps5 /\ last.op # "none") =>
        /\ last.blockExc = None => ~last.dirty
        /\ last.log[Len(last.log)] = "close"

C4_CreateTodoStores ==
    (app = "global_template" /\ last.op = "create_todo" /\ last.env) =>
        /\ last.status = 201
        /\ HasRow(todos, last.id)

\* C5: in 5-1-14, 5-2-14 and global_template, delete_todo for an id with
\* no stored record answers 404 and leaves the stored to-dos unchanged.
C5_DeleteMissingIs404 ==
    (last.op = "delete_todo" /\ ~last.existed) =>
        /\ last.status = 404
        /\ ~last.changed

\* delete_todo of a missing id was answered while other to-dos are stored
C5_Witness ==
    /\ last.op = "delete_todo"
    /\ ~last.existed
    /\ last.status = 404
    /\ todos # {}

\* C6: 5-2-14: once delete_todo answered "ToDo item successfully deleted",
\* a get_todo for that id (in a new request) answers 404.
C6_DeletedIsGone ==
    (app = "5-2-14" /\ last.op = "delete_todo" /\ last.status = 200) =>
        get_todo_by_id(app, todos, last.id).resp.status = 404

\* C7: global_template: update_todo / update_user with at least one
\* non-null field for an id that has no stored record reports the domain's
\* NotFound error with status 404, and writes nothing.
C7_UpdateMissingIsNotFound ==
    (/\ app = "global_template"
     /\ last.op \in {"update_todo", "update_user"}
     /\ ~last.existed) =>
        /\ last.status = 404
        /\ last.raised \in {"ToDoNotFoundError", "UserNotFoundError"}
        /\ ~last.changed

\* C8: global_template: create_user with the email of a stored user
\* reports UserAlreadyExistsError with status 409 and leaves the stored
\* users unchanged.
C8_DuplicateEmailConflicts ==
    (app = "global_template" /\ last.op = "create_user_dup") =>
        /\ last.status = 409
        /\ last.raised = "UserAlreadyExistsError"
        /\ ~last.changed

\* the classes of each domain by the kind of error
DomainErrors ==
    [db |-> [not_found |-> "DBRecordNotFound", already_exists |-> "DBAlreadyExistsError",
             validation |-> "DBValidationError", integrity |-> "DBIntegrityError",
             base |-> "DBException"],
     todo |-> [not_found |-> "ToDoNotFoundError", already_exists |-> "ToDoAlreadyExistsError",
               validation |-> "ToDoValidationError", integrity |-> "ToDoIntegrityError",
               base |-> "ToDoException"],
     user |-> [not_found |-> "UserNotFoundError", already_exists |-> "UserAlreadyExistsError",
               validation |-> "UserValidationError", integrity |-> "UserIntegrityError",
               base |-> "UserException"],
     tag |-> [not_found |-> "TagNotFoundError", already_exists |-> "TagAlreadyExistsError",
              validation |-> "TagValidationError", integrity |-> "TagIntegrityError",
              base |-> "TagException"],
     userprofile |->
        [not_found |-> "UserProfileNotFoundError",
         already_exists |-> "UserProfileAlreadyExistsError",
         validation |-> "UserProfileValidationError",
         integrity |-> "UserProfileIntegrityError",
         base |-> "UserProfileException"]]

KindStatus ==
    [not_found |-> 404, already_exists |-> 409, validation |-> 422,
     integrity |-> 400, base |-> 500]

\* C9: in every domain (db, todo, user, tag, userprofile) not-found maps to
\* 404, already-exists to 409, validation to 422, integrity to 400 and the
\* domain base to 500; and the response of app_exception_handler to an
\* AppBaseException has the class's status_code as HTTP status and as body
\* status_code, and the class's error_code as body error_code.
C9_HandlerKeepsClassCodes ==
    /\ \A d \in DOMAIN DomainErrors : \A k \in DOMAIN KindStatus :
          ClassAttr(DomainErrors[d][k], "status_code") = {KindStatus[k]}
    /\ last.op = "app_exception" =>
          /\ {last.status} = ClassAttr(last.cls, "status_code")
          /\ {last.body.status_code} = ClassAttr(last.cls, "status_code")
          /\ {last.body.error_code} = ClassAttr(last.cls, "error_code")

\* the handler answered a not-found error of a domain with 404
C9_Witness ==
    /\ last.op = "app_exception"
    /\ last.cls = "TagNotFoundError"
    /\ last.status = 404
    /\ last.body.error_code = "tag_not_found"

\* the roles each route answers successfully
Allowed ==
    [r \in Routes |->
        IF r = "/admin/" THEN {"ADMIN"}
        ELSE IF r = "/user/" THEN {"USER"}
        ELSE IF r = "/protected_resource/" THEN {"ADMIN", "USER"}
        ELSE {"ADMIN", "USER", "GUEST"}]

\* the token of the last request was issued by the server and has not expired
ValidToken ==
    /\ last.token.wellformed
    /\ last.token.key = SECRET_KEY
    /\ last.token.exp > last.at

\* C10: 4-3-11: with a valid token /admin/ answers 200 only for ADMIN,
\* /user/ only for USER, /protected_resource/ only for ADMIN or USER and
\* /info/ for any role, every other role gets 403; an expired or invalid
\* token gets 401 on all four routes; a GUEST never receives "sensitive
\* data".
C10_RoleBasedAccess ==
    last.op \in Routes =>
        /\ last.status = IF ~ValidToken THEN 401
                         ELSE IF last.token.role \in Allowed[last.op] THEN 200
                         ELSE 403
        /\ last.token.role = "GUEST" =>
              \/ last.status # 200
              \/ last.body.data # "sensitive data"

\* a GUEST with a valid token was refused the protected resource
C10_Witness ==
    /\ last.op = "/protected_resource/"
    /\ ValidToken
    /\ last.token.role = "GUEST"
    /\ last.status = 403

\* ----------------------------------------------- 4-2-12: login with JWT
\* database.py: the two stored users
USERS_DATA ==
    {[username |-> "Tor", password |-> "tor"],
     [username |-> "Loki", password |-> "loki"]}

\* TIME_NOW is evaluated once, when the module is imported: the clock's
\* value when the server starts
TIME_NOW == 0

TOKEN_EXPIRATION_DATE_IN_MINUTES == 1

\* get_user (4-2-12): the first stored user of that name, or None
get_user_4_2_12(username) == {u \in USERS_DATA : u.username = username}

\* create_jwt_token (4-2-12): exp counts from TIME_NOW, not from the call
create_jwt_token_4_2_12(data) ==
    jwt_encode([sub |-> data.sub, role |-> None,
                exp |-> TIME_NOW + 60 * TOKEN_EXPIRATION_DATE_IN_MINUTES],
               SECRET_KEY)

\* get_user_from_token: the username of the token, or the HTTPException
get_user_from_token(token, t) ==
    LET decoded == jwt_decode(token, SECRET_KEY, t)
    IN  IF decoded = "ExpiredSignatureError"
        THEN [username |-> {},
              error |-> {HTTPException(401, "Access Token has expired")}]
        ELSE IF decoded = "InvalidTokenError"
        THEN [username |-> {}, error |-> {HTTPException(401, "Invalid Token")}]
        ELSE [username |-> {token.sub}, error |-> {}]

\* POST /login (4-2-12): user.password is read from whatever get_user
\* returned; on None that is an AttributeError, which the framework answers
\* with 500
login_4_2_12(user_in) ==
    LET user == get_user_4_2_12(user_in.username)
    IN  IF user = {} THEN Response(500, "Internal Server Error")
        ELSE IF (CHOOSE u \in user : TRUE).password # user_in.password
        THEN HTTPException(401, "The password provided is an invalid password")
        ELSE Response(200, create_jwt_token_4_2_12([sub |-> user_in.username]))

\* GET /protected_resource (4-2-12)
about_me(token, t) ==
    LET auth == get_user_from_token(token, t)
        user == get_user_4_2_12(CHOOSE n \in auth.username : TRUE)
    IN  IF auth.error # {} THEN CHOOSE e \in auth.error : TRUE
        ELSE IF user = {} THEN HTTPException(401, "Invalid credentials")
        ELSE Response(200, CHOOSE u \in user : TRUE)

\* ------------------------------------------------- requests (4-2-12)
Login4212 ==
    /\ Idle
    /\ app = "4-2-12"
    /\ \E username \in {"Tor", "Loki", "Odin"}, password \in {"tor", "loki", "odin"} :
          LET resp == login_4_2_12([username |-> username, password |-> password])
          IN  /\ last' = [op |-> "login", username |-> username,
                          password |-> password, status |-> resp.status,
                          body |-> resp.body, issued |-> resp.status = 200]
              /\ tokens' = IF resp.status = 200 THEN tokens \cup {resp.body}
                           ELSE tokens
    /\ UNCHANGED <<app, todos, users, added, now>>

AboutMe ==
    /\ Idle
    /\ app = "4-2-12"
    /\ \E token \in tokens \cup Forged(now) :
          LET resp == about_me(token, now)
          IN  last' = [op |-> "about_me", token |-> token, at |-> now,
                       status |-> resp.status, body |-> resp.body]
    /\ UNCHANGED <<app, todos, users, added, tokens, now>>

Tick4212 ==
    /\ Idle
    /\ app = "4-2-12"
    /\ \E d \in Ticks : now + d <= MaxNow /\ now' = now + d
    /\ UNCHANGED <<app, todos, users, added, tokens, last>>

Init4212 ==
    /\ app = "4-2-12"
    /\ todos = {}
    /\ users = {}
    /\ added = [i \in Ids |-> {}]
    /\ tokens = {}
    /\ now = TIME_NOW
    /\ last = NoRequest

Next4212 ==
    \/ Login4212
    \/ AboutMe
    \/ Tick4212
    \/ Deliver

Spec4212 == Init4212 /\ [][Next4212]_vars

\* C11: 4-2-12 POST /login: a token is returned only when the username is
\* in USERS_DATA and the password equals the stored one; every other
\* username/password pair, a username that is not stored included, gets
\* 401 and no token.
C11_LoginOnlyWithStoredPassword ==
    (app = "4-2-12" /\ last.op = "login") =>
        IF [username |-> last.username, password |-> last.password] \in USERS_DATA
        THEN last.status = 200 /\ last.issued
        ELSE last.status = 401 /\ ~last.issued

\* --------------------------------------------- 3-2-14: cookie sessions
\* the store holds at most MaxSessions sessions
MaxSessions == 2

\* class User(BaseModel): username, password
User3214 == [username : {"alice", "bob"}, password : {"pw1", "pw2"}]

\* db.database.fake_db: a list of User; the variable users holds it
fake_db == users

\* secrets.token_urlsafe(16): a token no earlier call returned (128 random
\* bits), written as the number of the call
token_urlsafe(sessions) == Cardinality(sessions) + 1

\* POST /login (3-2-14): sessions[session_token] = user for the first
\* person of fake_db with that username and password, else 401
login_3_2_14(sessions, user) ==
    IF \E person \in fake_db :
          person.username = user.username /\ person.password = user.password
    THEN [resp |-> Response(200, "cookies are set"),
          cookie |-> {token_urlsafe(sessions)},
          sessions |-> sessions \cup
              {[session_token |-> token_urlsafe(sessions), user |-> user]}]
    ELSE [resp |-> HTTPException(401, "Invalid username or password"),
          cookie |-> {}, sessions |-> sessions]

user_info_AnySession(sessions, session_token) ==
    IF sessions # {}
    THEN Response(200, model_dump((CHOOSE e \in sessions : TRUE).user))
    ELSE HTTPException(403, "Unauthorized access")

\* GET /user (3-2-14): sessions.get(session_token), 403 when there is none
user_info(sessions, session_token) ==
    LET found == {e \in sessions : e.session_token = session_token}
    IN  IF found # {}
        THEN Response(200, model_dump((CHOOSE e \in found : TRUE).user))
        ELSE HTTPException(403, "Unauthorized access")

\* ------------------------------------------------- requests (3-2-14)
\* tokens is the dict sessions; added records which user each successful
\* login handed its token to
Login3214 ==
    /\ Idle
    /\ app = "3-2-14"
    /\ Cardinality(tokens) < MaxSessions
    /\ \E user \in User3214 :
          LET out == login_3_2_14(tokens, user)
          IN  /\ tokens' = out.sessions
              /\ added' = added \cup
                    {[session_token |-> c, user |-> user] : c \in out.cookie}
              /\ last' = [op |-> "login", user |-> user,
                          status |-> out.resp.status, body |-> out.resp.body,
                          cookie |-> out.cookie, changed |-> out.sessions # tokens]
    /\ UNCHANGED <<app, todos, users, now>>

\* the client presents a token it was given, or one it made up
UserInfo ==
    /\ Idle
    /\ app = "3-2-14"
    /\ \E session_token \in 1..(MaxSessions + 1) :
          LET resp == user_info(tokens, session_token)
          IN  last' = [op |-> "user_info", session_token |-> session_token,
                       status |-> resp.status, body |-> resp.body]
    /\ UNCHANGED <<app, todos, users, added, tokens, now>>

Init3214 ==
    /\ app = "3-2-14"
    /\ todos = {}
    /\ users \in SUBSET User3214
    /\ added = {}
    /\ tokens = {}
    /\ now = 0
    /\ last = NoRequest

Next3214 ==
    \/ Login3214
    \/ UserInfo
    \/ Deliver

Spec3214 == Init3214 /\ [][Next3214]_vars

\* C12: 3-2-14: GET /user answers with user data only for a session_token
\* an earlier successful /login issued, and the data is that of the user
\* who logged in with it; any other token gets 403; a /login with
\* credentials not in fake_db gets 401 and adds no entry to the store.
C12_SessionsBelongToLogins ==
    app = "3-2-14" =>
        /\ last.op = "user_info" =>
              LET issued == {g \in added : g.session_token = last.session_token}
              IN  IF issued = {} THEN last.status = 403
                  ELSE /\ last.status = 200
                       /\ \A g \in issued : last.body = g.user
        /\ (last.op = "login" /\ last.user \notin fake_db) =>
              /\ last.status = 401
              /\ ~last.changed
              /\ last.cookie = {}

\* with two sessions stored for different users, the second token got
\* the second user's data
C12_Witness ==
    /\ app = "3-2-14"
    /\ last.op = "user_info"
    /\ last.status = 200
    /\ Cardinality({g.user : g \in added}) = 2
    /\ \E g \in added : g.session_token = last.session_token /\ g.user = last.body

\* ------------------------------------------ 3-1-15: in-memory user list
\* requests the server has read and not yet handled, at most
MaxPending == 2

\* class UserCreate(BaseModel): name, email, age = None, is_subscribed = False
UserCreate3115 ==
    [name : {"n1", "n2"}, email : {"a@x.io", "b@x.io", "c@x.io"},
     age : {None}, is_subscribed : {"False"}]

\* any(user.email == new_user.email for user in users)
EmailRegistered(list, email) == \E i \in 1..Len(list) : list[i].email = email

create_user_3_1_15_NoCheck(list, new_user) ==
    [resp |-> Response(200, new_user), users |-> Append(list, new_user)]

\* POST /create_user: the coroutine has no await, so the check and the
\* append run without another handler in between
create_user_3_1_15(list, new_user) ==
    IF EmailRegistered(list, new_user.email)
    THEN [resp |-> HTTPException(400, "Email already registered."),
          users |-> list]
    ELSE [resp |-> Response(200, new_user), users |-> Append(list, new_user)]

\* GET /showuser
show_users(list) == Response(200, [users |-> list])

\* ------------------------------------------------- requests (3-1-15)
\* users is the list; added holds the requests whose body the server has
\* read while their handlers have not run yet: they are handled in any order
Receive3115 ==
    /\ app = "3-1-15"
    /\ Cardinality(added) < MaxPending
    /\ \E new_user \in UserCreate3115 : added' = added \cup {new_user}
    /\ UNCHANGED <<app, todos, users, tokens, now, last>>

CreateUser3115 ==
    /\ Idle
    /\ app = "3-1-15"
    /\ \E new_user \in added :
          LET out == create_user_3_1_15(users, new_user)
          IN  /\ users' = out.users
              /\ added' = added \ {new_user}
              /\ last' = [op |-> "create_user", new_user |-> new_user,
                          registered |-> EmailRegistered(users, new_user.email),
                          status |-> out.resp.status, body |-> out.resp.body,
                          changed |-> out.users # users,
                          appended |-> out.users = Append(users, new_user)]
    /\ UNCHANGED <<app, todos, tokens, now>>

ShowUsers ==
    /\ Idle
    /\ app = "3-1-15"
    /\ last' = [op |-> "show_users", status |-> show_users(users).status,
                body |-> show_users(users).body]
    /\ UNCHANGED <<app, todos, users, added, tokens, now>>

Init3115 ==
    /\ app = "3-1-15"
    /\ todos = {}
    /\ users = <<>>
    /\ added = {}
    /\ tokens = {}
    /\ now = 0
    /\ last = NoRequest

Next3115 ==
    \/ Receive3115
    \/ CreateUser3115
    \/ ShowUsers
    \/ Deliver

Spec3115 == Init3115 /\ [][Next3115]_vars

\* C13: 3-1-15: after any sequence and interleaving of POST /create_user
\* requests no two users of the list share an email; a request whose email
\* is stored gets 400 and leaves the list unchanged; an accepted request
\* appends exactly the submitted user at the end.
C13_EmailsStayUnique ==
    app = "3-1-15" =>
        /\ \A i, j \in 1..Len(users) :
              i # j => users[i].email # users[j].email
        /\ last.op = "create_user" =>
              IF last.registered
              THEN last.status = 400 /\ ~last.changed
              ELSE /\ last.status = 200
                   /\ last.body = last.new_user
                   /\ last.appended
                   /\ users[Len(users)] = last.new_user

\* of two requests with the same email in flight together, the second one
\* handled was refused
C13_Witness ==
    /\ app = "3-1-15"
    /\ last.op = "create_user"
    /\ last.registered
    /\ last.status = 400
    /\ Len(users) = 2
    /\ \E i \in 1..Len(users) :
          users[i].email = last.new_user.email /\ users[i] # last.new_user

\* -------------------------------------------- 6-3-13: user registration
\* the store holds at most MaxStore users
MaxStore == 4

\* class UserRegistrationModel(BaseModel): name, email
UserRegistrationModel ==
    [name : {"Alice", "Zed"},
     email : {"alice@example.com", "bob@example.com", "carol@example.com",
              "dave@example.com"}]

\* fake_users_db as the module defines it: a dict, written as the set of
\* its items
fake_users_db ==
    {[key |-> 1, value |-> [id |-> 1, name |-> "Alice", email |-> "alice@example.com"]],
     [key |-> 2, value |-> [id |-> 2, name |-> "Bob", email |-> "bob@example.com"]]}

\* max(fake_users_db.keys(), default=0)
MaxKey(db) ==
    IF db = {} THEN 0
    ELSE CHOOSE k \in {e.key : e \in db} : \A e \in db : e.key <= k

\* UserNotFoundException / InvalidUserDataException(status_code, message,
\* error_code)
Exception6313(cls, status_code, message, error_code) ==
    [cls |-> cls, status_code |-> status_code, message |-> message,
     error_code |-> error_code]

\* user_not_found_exception_handler / invalid_user_data_exception_handler,
\* each registered for its class: ErrorResponseModel as the body,
\* exc.status_code as the status
exception_handler_6_3_13(exc) ==
    Response(exc.status_code,
             [status_code |-> exc.status_code, message |-> exc.message,
              error_code |-> exc.error_code])

register_user_NoCheck(db, user) ==
    LET new_id == MaxKey(db) + 1
        value == [id |-> new_id, name |-> user.name, email |-> user.email]
    IN  [resp |-> Response(201, value), raised |-> None,
         db |-> {e \in db : e.key # new_id} \cup {[key |-> new_id, value |-> value]}]

\* POST /register
register_user(db, user) ==
    IF \E u \in db : u.value.email = user.email
    THEN LET exc == Exception6313("InvalidUserDataException", 400,
                        "User with this email already exists.",
                        "USER_ALREADY_EXISTS")
         IN  [resp |-> exception_handler_6_3_13(exc), raised |-> exc.cls,
              db |-> db]
    ELSE LET new_id == MaxKey(db) + 1
             value == [id |-> new_id, name |-> user.name, email |-> user.email]
         IN  [resp |-> Response(201, value), raised |-> None,
              db |-> {e \in db : e.key # new_id}
                        \cup {[key |-> new_id, value |-> value]}]

\* GET /users/{user_id}
get_user_6_3_13(db, user_id) ==
    LET user == {e.value : e \in {e \in db : e.key = user_id}}
    IN  IF user = {}
        THEN LET exc == Exception6313("UserNotFoundException", 404,
                            "User with id={user_id} not found.", "USER_NOT_FOUND")
             IN  [resp |-> exception_handler_6_3_13(exc), raised |-> exc.cls]
        ELSE [resp |-> Response(200, CHOOSE u \in user : TRUE), raised |-> None]

\* ------------------------------------------------- requests (6-3-13)
\* users holds fake_users_db
Register ==
    /\ Idle
    /\ app = "6-3-13"
    /\ Cardinality(users) < MaxStore
    /\ \E user \in UserRegistrationModel :
          LET out == register_user(users, user)
          IN  /\ users' = out.db
              /\ last' = [op |-> "register", user |-> user,
                          registered |-> \E u \in users : u.value.email = user.email,
                          status |-> out.resp.status, body |-> out.resp.body,
                          raised |-> out.raised, changed |-> out.db # users]
    /\ UNCHANGED <<app, todos, added, tokens, now>>

GetUser6313 ==
    /\ Idle
    /\ app = "6-3-13"
    /\ \E user_id \in 0..(MaxStore + 1) :
          LET out == get_user_6_3_13(users, user_id)
          IN  last' = [op |-> "get_user", id |-> user_id,
                       existed |-> \E e \in users : e.key = user_id,
                       status |-> out.resp.status, body |-> out.resp.body,
                       raised |-> out.raised]
    /\ UNCHANGED <<app, todos, users, added, tokens, now>>

Init6313 ==
    /\ app = "6-3-13"
    /\ todos = {}
    /\ users = fake_users_db
    /\ added = {}
    /\ tokens = {}
    /\ now = 0
    /\ last = NoRequest

Next6313 ==
    \/ Register
    \/ GetUser6313
    \/ Deliver

Spec6313 == Init6313 /\ [][Next6313]_vars

\* C14: 6-3-13: after any sequence of POST /register, every entry of
\* fake_users_db has its key equal to its id, and ids and emails are
\* pairwise distinct; registering a stored email raises
\* InvalidUserDataException (400, USER_ALREADY_EXISTS) and leaves the store
\* unchanged; GET /users/{id} raises UserNotFoundException (404) for an id
\* not in the store and otherwise returns the stored user.
C14_StoreKeepsIdsAndEmailsUnique ==
    app = "6-3-13" =>
        /\ \A e \in users : e.key = e.value.id
        /\ \A e1, e2 \in users :
              e1 # e2 => e1.value.id # e2.value.id /\ e1.value.email # e2.value.email
        /\ (last.op = "register" /\ last.registered) =>
              /\ last.raised = "InvalidUserDataException"
              /\ last.status = 400
              /\ last.body.error_code = "USER_ALREADY_EXISTS"
              /\ ~last.changed
        /\ last.op = "get_user" =>
              IF ~last.existed
              THEN last.raised = "UserNotFoundException" /\ last.status = 404
              ELSE /\ last.status = 200
                   /\ [key |-> last.id, value |-> last.body] \in users

\* a newly registered user was stored under a new id, and a later
\* registration of the same email was refused
C14_Witness ==
    /\ app = "6-3-13"
    /\ last.op = "register"
    /\ last.registered
    /\ last.status = 400
    /\ \E e \in users : e.key = 3 /\ e.value.email = last.user.email

\* ------------------------------------- 5-3-2: the @connection decorator
\* at most MaxCalls decorated calls are followed, with at most MaxBatch
\* users in one add_many_users
MaxCalls == 3
MaxBatch == 2

\* a key user_data does not hold
Missing == "Missing"

\* the rows of the tables users and profiles (models.py), with the columns
\* the DAO methods touch; id 0 is a primary key not yet assigned
UserRow532(username, email) ==
    [table |-> "users", id |-> 0, username |-> username, email |-> email,
     user_id |-> 0, first_name |-> None]

ProfileRow532(user_id, first_name) ==
    [table |-> "profiles", id |-> 0, username |-> None, email |-> None,
     user_id |-> user_id, first_name |-> first_name]

\* user_data / users_data as the example calls pass them
UserData532 ==
    [username : {"bob_smith", "amelia_davis"},
     email : {"bob.smith@example.com"},
     first_name : {"Bob", Missing}]

UsersData532 ==
    UNION {[1..n -> {u \in UserData532 : u.first_name = Missing}] : n \in 1..MaxBatch}

\* the database call that fails for a reason outside the program
\* (OperationalError), if any
Faults == {"none", "execute", "flush", "commit"}

\* async_session_maker(): a new session on the database; view is what the
\* session's transaction sees, db what is committed
Session532(id, db) ==
    [id |-> id, new |-> <<>>, view |-> db, db |-> db, log |-> <<>>,
     closed |-> FALSE]

Ret(s, value) == [s |-> s, exc |-> None, value |-> value]

Exc(s, cls) == [s |-> s, exc |-> cls, value |-> <<>>]

Logged(s, call) == [s EXCEPT !.log = Append(@, call)]

\* session.add / session.add_all / session.delete: pending until a flush
session_add(s, row) ==
    [s EXCEPT !.new = Append(@, [op |-> "insert", row |-> row])]

session_delete(s, row) ==
    [s EXCEPT !.new = Append(@, [op |-> "delete", row |-> row])]

\* autoincrement primary key
NextId(view, table) ==
    LET ids == {r.id : r \in {r \in view : r.table = table}}
    IN  IF ids = {} THEN 1 ELSE (CHOOSE i \in ids : \A j \in ids : j <= i) + 1

\* the constraints of models.py: users.username and users.email unique,
\* profiles.user_id unique and a foreign key; the User.profile relationship
\* has no delete cascade and profiles.user_id is not nullable, so deleting
\* a user who has a profile fails
Violates(view, p) ==
    IF p.op = "delete"
    THEN \E r \in view : r.table = "profiles" /\ r.user_id = p.row.id
    ELSE IF p.row.table = "users"
         THEN \E r \in view : /\ r.table = "users"
                              /\ (r.username = p.row.username \/ r.email = p.row.email)
         ELSE \/ \E r \in view : r.table = "profiles" /\ r.user_id = p.row.user_id
              \/ ~\E r \in view : r.table = "users" /\ r.id = p.row.user_id

\* the unit of work of a flush: the pending changes go to the database in
\* order, inside the session's transaction
RECURSIVE ApplyPending(_, _)
Inserted(id, r) == [view |-> r.view, ok |-> r.ok, ids |-> <<id>> \o r.ids]

Insert(view, row, id, rest) ==
    Inserted(id, ApplyPending(view \cup {[row EXCEPT !.id = id]}, rest))

ApplyPending(view, new) ==
    IF new = <<>> THEN [view |-> view, ok |-> TRUE, ids |-> <<>>]
    ELSE IF Violates(view, Head(new)) THEN [view |-> view, ok |-> FALSE, ids |-> <<>>]
    ELSE IF Head(new).op = "delete" THEN ApplyPending(view \ {Head(new).row}, Tail(new))
    ELSE Insert(view, Head(new).row, NextId(view, Head(new).row.table), Tail(new))

\* what a failed flush or commit leaves: the transaction is rolled back
Failed(s) == [s EXCEPT !.new = <<>>, !.view = s.db]

Flushed(s1, r, fault) ==
    IF fault = "flush" THEN Exc(Failed(s1), "OperationalError")
    ELSE IF ~r.ok THEN Exc(Failed(s1), "IntegrityError")
    ELSE Ret([s1 EXCEPT !.new = <<>>, !.view = r.view], r.ids)

\* await session.flush(): returns the ids it assigned
session_flush(s, fault) ==
    Flushed(Logged(s, "flush"), ApplyPending(s.view, s.new), fault)

CommitDone(s1, r, fault) ==
    IF ~r.ok THEN Exc(Failed(s1), "IntegrityError")
    ELSE IF fault = "commit" THEN Exc(Failed(s1), "OperationalError")
    ELSE Ret([s1 EXCEPT !.new = <<>>, !.view = r.view, !.db = r.view], <<>>)

\* await session.commit(): flushes, then commits the transaction
session_commit(s, fault) ==
    CommitDone(Logged(s, "commit"), ApplyPending(s.view, s.new), fault)

\* await session.rollback()
session_rollback(s) == Failed(Logged(s, "rollback"))

\* await session.close()
session_close(s) == [Failed(Logged(s, "close")) EXCEPT !.closed = TRUE]

\* await session.execute(...) / session.get(...): a read
session_execute(s, fault) ==
    IF fault = "execute" THEN Exc(Failed(Logged(s, "execute")), "OperationalError")
    ELSE Ret(Logged(s, "execute"), <<>>)

\* except SQLAlchemyError as e: await session.rollback(); raise e
RollbackAndRaise(f) ==
    IF f.exc # None THEN Exc(session_rollback(f.s), f.exc) ELSE f

\* BaseDAO.add_many with model = User: the new instances, with their ids
BaseDAO_add_many(s, instances, fault) ==
    RollbackAndRaise(
        session_flush(
            [s EXCEPT !.new = @ \o [i \in 1..Len(instances) |->
                [op |-> "insert",
                 row |-> UserRow532(instances[i].username, instances[i].email)]]],
            fault))

\* add_many_users: the ids of new_users
add_many_users(s, users_data, fault) == BaseDAO_add_many(s, users_data, fault)

\* return user, once the commit went through
ReturnUser(c, uid) == IF c.exc # None THEN c ELSE Ret(c.s, uid)

\* profile = Profile(user_id=user.id, ...); session.add(profile);
\* await session.commit()
AddProfile(f, user_data, fault) ==
    IF f.exc # None THEN f
    ELSE IF user_data.first_name = Missing THEN Exc(f.s, "KeyError")
    ELSE ReturnUser(
             session_commit(
                 session_add(f.s, ProfileRow532(f.value[1], user_data.first_name)),
                 fault),
             f.value)

\* the ids a flush assigned, after a commit in its place
Assigned(c, uid) == IF c.exc # None THEN c ELSE Ret(c.s, <<uid>>)

UserDAO_add_user_with_profile_CommitsUser(s, user_data, fault) ==
    AddProfile(
        Assigned(
            session_commit(
                session_add(s, UserRow532(user_data.username, user_data.email)),
                fault),
            NextId(s.view, "users")),
        user_data, fault)

\* UserDAO.add_user_with_profile
UserDAO_add_user_with_profile(s, user_data, fault) ==
    AddProfile(
        session_flush(
            session_add(s, UserRow532(user_data.username, user_data.email)),
            fault),
        user_data, fault)

\* add_full_user: new_user.id
add_full_user(s, user_data, fault) == UserDAO_add_user_with_profile(s, user_data, fault)

\* records = result.scalars().all(): the ids of the users read
AllUsers(e) ==
    IF e.exc # None THEN e
    ELSE Ret(e.s, {r.id : r \in {r \in e.s.view : r.table = "users"}})

\* select_all_users -> UserDAO.get_all_users
select_all_users(s, fault) == AllUsers(session_execute(s, fault))

\* if data: await session.delete(data); await session.flush()
DeleteData(g, user_id, fault) ==
    IF g.exc # None THEN g
    ELSE IF ~\E r \in g.s.view : r.table = "users" /\ r.id = user_id
    THEN Ret(g.s, <<>>)
    ELSE session_flush(
             session_delete(g.s, CHOOSE r \in g.s.view :
                                     r.table = "users" /\ r.id = user_id),
             fault)

\* delete_user_by_id_dao -> BaseDAO.delete_one_by_id
delete_user_by_id_dao(s, user_id, fault) ==
    DeleteData(session_execute(s, fault), user_id, fault)

\* some_db_operation of the module's usage example: its body is elided, so
\* it returns or raises without using the session
some_db_operation(s, raises) ==
    IF raises THEN Exc(s, "ValueError") ELSE Ret(s, <<>>)

\* await method(*args, session=session, **kwargs)
CallMethod(method, s, args, fault) ==
    CASE method = "add_many_users" -> add_many_users(s, args, fault)
      [] method = "add_full_user" -> add_full_user(s, args, fault)
      [] method = "select_all_users" -> select_all_users(s, fault)
      [] method = "delete_user_by_id_dao" -> delete_user_by_id_dao(s, args, fault)
      [] method = "some_db_operation" -> some_db_operation(s, args)

\* the wrapper's state: the session, the exception in flight, the value to
\* return, what the wrapper itself did so far (steps) and what the
\* decorated function raised (methodExc)
Wrapper(o, steps, methodExc) ==
    [s |-> o.s, exc |-> o.exc, value |-> o.value, steps |-> steps,
     methodExc |-> methodExc]

\* async with async_session_maker() as session: try: if isolation_level:
\* await session.execute(text("SET TRANSACTION ISOLATION LEVEL ..."))
Wrapper_isolation(isolation_level, id, db, fault) ==
    IF isolation_level # None
    THEN Wrapper(session_execute(Session532(id, db), fault),
                 <<"create", "execute">>, None)
    ELSE Wrapper(Ret(Session532(id, db), <<>>), <<"create">>, None)

Called(w, r) == Wrapper(r, Append(w.steps, "method"), r.exc)

\* result = await method(*args, session=session, **kwargs)
Wrapper_method(w, method, args, fault) ==
    IF w.exc # None THEN w ELSE Called(w, CallMethod(method, w.s, args, fault))

Committed(w, k) ==
    [w EXCEPT !.s = k.s, !.exc = k.exc,
              !.value = IF k.exc # None THEN <<>> ELSE @,
              !.steps = Append(@, "commit")]

\* if commit: await session.commit()
Wrapper_commit(w, commit, fault) ==
    IF w.exc # None \/ ~commit THEN w ELSE Committed(w, session_commit(w.s, fault))

\* return result / except Exception as e: await session.rollback(); raise e
Wrapper_except(w) ==
    IF w.exc # None
    THEN [w EXCEPT !.s = session_rollback(@), !.steps = @ \o <<"rollback", "raise">>]
    ELSE [w EXCEPT !.steps = Append(@, "return")]

\* finally: await session.close()
Wrapper_finally(w) ==
    [w EXCEPT !.s = session_close(@), !.steps = Append(@, "close")]

connection_CommitsAlways(isolation_level, commit, method, args, id, db, fault) ==
    Wrapper_finally(Wrapper_except(Wrapper_commit(
        Wrapper_method(Wrapper_isolation(isolation_level, id, db, fault),
                       method, args, fault),
        TRUE, fault)))

\* connection(isolation_level, commit)(method)(*args): the wrapper
connection(isolation_level, commit, method, args, id, db, fault) ==
    Wrapper_finally(Wrapper_except(Wrapper_commit(
        Wrapper_method(Wrapper_isolation(isolation_level, id, db, fault),
                       method, args, fault),
        commit, fault)))

\* ---------------------------------------------------- calls (5-3-2)
\* users holds the committed database, tokens the sessions made so far,
\* now their number; last is the call that just ended
Done532(method, isolation_level, commit, args, out) ==
    /\ users' = out.s.db
    /\ tokens' = tokens \cup {out.s.id}
    /\ now' = out.s.id
    /\ last' = [op |-> method, isolation_level |-> isolation_level,
                commit |-> commit, args |-> args, session |-> out.s.id,
                fresh |-> out.s.id \notin tokens, closed |-> out.s.closed,
                log |-> out.s.log, steps |-> out.steps, exc |-> out.exc,
                methodExc |-> out.methodExc, value |-> out.value,
                created |-> out.s.db \ users, removed |-> users \ out.s.db]

Run532(method, isolation_level, commit, args, fault) ==
    /\ now < MaxCalls
    /\ Done532(method, isolation_level, commit, args,
               connection(isolation_level, commit, method, args, now + 1, users, fault))
    /\ UNCHANGED <<app, todos, added>>

\* run(add_many_users(users_data=users))
AddManyUsers ==
    /\ Idle
    /\ app = "5-3-2"
    /\ \E users_data \in UsersData532, fault \in Faults :
           Run532("add_many_users", None, FALSE, users_data, fault)

\* run(add_full_user(user_data=user_data_bob))
AddFullUser ==
    /\ Idle
    /\ app = "5-3-2"
    /\ \E user_data \in UserData532, fault \in Faults :
           Run532("add_full_user", None, FALSE, user_data, fault)

\* run(select_all_users())
SelectAllUsers ==
    /\ Idle
    /\ app = "5-3-2"
    /\ \E fault \in Faults : Run532("select_all_users", None, FALSE, <<>>, fault)

\* asyncio.run(delete_user_by_id_dao(user_id=10))
DeleteUserByIdDao ==
    /\ Idle
    /\ app = "5-3-2"
    /\ \E user_id \in 1..2, fault \in Faults :
           Run532("delete_user_by_id_dao", None, TRUE, user_id, fault)

\* @connection(isolation_level="SERIALIZABLE", commit=True)
SomeDbOperation ==
    /\ Idle
    /\ app = "5-3-2"
    /\ \E raises \in BOOLEAN, fault \in Faults :
           Run532("some_db_operation", "SERIALIZABLE", TRUE, raises, fault)

\* the database before the scripts run: empty, or with a user that has no
\* profile
Init532 ==
    /\ app = "5-3-2"
    /\ todos = {}
    /\ users \in {{}, {[UserRow532("amelia_davis", "amelia.davis@example.com")
                          EXCEPT !.id = 1]}}
    /\ added = {}
    /\ tokens = {}
    /\ now = 0
    /\ last = NoRequest

Next532 ==
    \/ AddManyUsers
    \/ AddFullUser
    \/ SelectAllUsers
    \/ DeleteUserByIdDao
    \/ SomeDbOperation
    \/ Deliver

Spec532 == Init532 /\ [][Next532]_vars

\* the elements of a sequence
Range(seq) == {seq[i] : i \in 1..Len(seq)}

\* C15: 5-3-2: for every call of a function decorated with @connection a
\* new session is created; the wrapper commits it exactly when commit=True
\* and the function returned without raising; on any exception the session
\* is rolled back and the exception raised again; and the session is closed
\* on every path.
C15_ConnectionCommitsRollsBackCloses ==
    (app = "5-3-2" /\ ~Idle) =>
        LET steps == last.steps
            n == Len(steps)
            called == "method" \in Range(steps)
            returned == called /\ last.methodExc = None
        IN  /\ steps[1] = "create"
            /\ last.fresh
            /\ ("commit" \in Range(steps)) <=> (last.commit /\ returned)
            /\ (called /\ last.methodExc # None) => last.exc = last.methodExc
            /\ last.exc # None =>
                  /\ SubSeq(steps, n - 2, n) = <<"rollback", "raise", "close">>
                  /\ \E i \in 1..Len(last.log) : last.log[i] = "rollback"
                  /\ last.created = {} /\ last.removed = {}
            /\ steps[n] = "close"
            /\ last.closed
            /\ last.log[Len(last.log)] = "close"
            /\ Cardinality({i \in 1..Len(last.log) : last.log[i] = "close"}) = 1

\* a commit=True function returned and the wrapper committed its delete
C15_Witness ==
    /\ app = "5-3-2"
    /\ last.op = "delete_user_by_id_dao"
    /\ last.commit
    /\ last.exc = None
    /\ last.removed # {}
    /\ last.steps = <<"create", "method", "commit", "return", "close">>

\* C16: 5-3-2: after add_many_users returns the list of new ids, the
\* users it was given are in the database under those ids, visible to a
\* later session.
C16_AddedUsersArePersisted ==
    (app = "5-3-2" /\ last.op = "add_many_users" /\ last.exc = None) =>
        \A i \in 1..Len(last.value) :
            \E r \in users : /\ r.table = "users"
                             /\ r.id = last.value[i]
                             /\ r.username = last.args[i].username

\* C17: 5-3-2: after add_full_user (UserDAO.add_user_with_profile), whether
\* it returned or raised at any step, the database has gained either both
\* the new user and its profile or neither of them.
C17_UserAndProfileTogether ==
    (app = "5-3-2" /\ last.op = "add_full_user") =>
        /\ last.removed = {}
        /\ \/ last.created = {}
           \/ \E u, p \in last.created :
                 /\ u.table = "users" /\ u.username = last.args.username
                 /\ p.table = "profiles" /\ p.user_id = u.id
                 /\ last.created = {u, p}
        /\ last.exc = None <=> last.created # {}
        /\ last.exc = None => \E u \in last.created : <<u.id>> = last.value

\* add_full_user returned and both rows are in the database
C17_Witness ==
    /\ app = "5-3-2"
    /\ last.op = "add_full_user"
    /\ last.exc = None
    /\ \E u, p \in users :
          /\ u \in last.created /\ p \in last.created
          /\ u.table = "users" /\ p.table = "profiles" /\ p.user_id = u.id

\* ------------------------------------ the UnitOfWork object, block by block
\* at most MaxBlocks `async with uow` blocks on one UnitOfWork object
MaxBlocks == 3

UoWApps == Apps5 \cup {"global_template"}

\* added holds the UnitOfWork object, now is 1 inside an `async with uow`
\* block and 0 outside, tokens records the session each block was entered
\* with, last the operation that just ended
Began(c) == [c EXCEPT !.log = <<>>, !.exc = None]

UoWDone(op, name, c) ==
    [op |-> op, name |-> name, inside |-> now = 1,
     hadSession |-> added.session # NoSession, exc |-> c.exc, log |-> c.log]

\* uow = UnitOfWork(...)
UoW_new(variant) ==
    IF variant = "global_template"
    THEN GT_init([todos |-> {}, users |-> {}])
    ELSE UnitOfWork_init(variant, {})

\* async with uow: (__aenter__)
UoWEnter ==
    /\ app \in UoWApps
    /\ now = 0
    /\ Cardinality(tokens) < MaxBlocks
    /\ added' = IF app = "global_template" THEN GT_aenter(Began(added))
                ELSE UnitOfWork_aenter(app, Began(added))
    /\ tokens' = tokens \cup {[block |-> Cardinality(tokens) + 1,
                               session |-> added'.session]}
    /\ now' = 1
    /\ last' = UoWDone("enter", None, added')
    /\ UNCHANGED <<app, todos, users>>

\* the end of the block (__aexit__), after the block raised or not, with
\* the commit or the rollback of the exit failing or not
UoWExit ==
    /\ app \in UoWApps
    /\ now = 1
    /\ \E raised \in {None, "ValueError"}, commitFails, rollbackFails \in BOOLEAN :
          /\ added' = IF app = "global_template"
                      THEN GT_aexit_with(Raise(Began(added), raised),
                                         commitFails, rollbackFails)
                      ELSE UnitOfWork_aexit(Raise(Began(added), raised))
          /\ last' = UoWDone("exit", None, added')
    /\ now' = 0
    /\ UNCHANGED <<app, todos, users, tokens>>

\* uow.todo / uow.user / uow.userprofile / uow.tag
UoWAccess ==
    /\ app = "global_template"
    /\ \E name \in Repos :
          /\ added' = [GT_get_repo(Began(added), name) EXCEPT !.ret = added[name]]
          /\ last' = UoWDone("access", name, added')
    /\ UNCHANGED <<app, todos, users, tokens, now>>

\* await uow.commit()
UoWCommit ==
    /\ app = "global_template"
    /\ \E fails \in BOOLEAN :
          /\ added' = GT_commit(Began(added), fails)
          /\ last' = UoWDone("commit", None, added')
    /\ UNCHANGED <<app, todos, users, tokens, now>>

\* await uow.rollback()
UoWRollback ==
    /\ app = "global_template"
    /\ added' = GT_rollback(Began(added))
    /\ last' = UoWDone("rollback", None, added')
    /\ UNCHANGED <<app, todos, users, tokens, now>>

InitUoW ==
    /\ app \in UoWApps
    /\ todos = {}
    /\ users = {}
    /\ added = UoW_new(app)
    /\ tokens = {}
    /\ now = 0
    /\ last = NoRequest

NextUoW ==
    \/ UoWEnter
    \/ UoWExit
    \/ UoWAccess
    \/ UoWCommit
    \/ UoWRollback

SpecUoW == InitUoW /\ [][NextUoW]_vars

\* C18: global_template UnitOfWork: the accessors todo, user, userprofile
\* and tag return a repository only between __aenter__ and __aexit__ and
\* raise RuntimeError at every other time; commit() and rollback() raise
\* RuntimeError whenever no session is open; and after __aexit__ returned
\* or raised, also when its commit or rollback failed, the session and the
\* four repository references are None.
C18_RepositoriesOnlyInsideTheBlock ==
    app = "global_template" =>
        /\ last.op = "access" =>
              IF last.inside
              THEN last.exc = None /\ added.ret = added.session
              ELSE last.exc = "RuntimeError"
        /\ (last.op \in {"commit", "rollback"} /\ ~last.hadSession) =>
              last.exc = "RuntimeError" /\ last.log = <<>>
        /\ (last.op \in {"commit", "rollback"} /\ last.hadSession) =>
              last.exc # "RuntimeError" /\ last.log = <<last.op>>
        /\ now = 0 =>
              /\ added.session = NoSession
              /\ \A name \in Repos : added[name] = NoSession
        /\ now = 1 =>
              /\ added.session # NoSession
              /\ \A name \in Repos : added[name] = added.session

\* the block raised, the rollback of __aexit__ failed, and the object is
\* left without session and repositories
C18_Witness ==
    /\ app = "global_template"
    /\ last.op = "exit"
    /\ last.exc = "DBAPIError"
    /\ last.log = <<"rollback", "close">>
    /\ added.session = NoSession
    /\ \A name \in Repos : added[name] = NoSession

\* C20: every UnitOfWork variant opens its session on context entry: no
\* session exists before the first `async with uow`, and two blocks on the
\* same UnitOfWork object never use the same session.
C20_EachBlockOpensItsSession ==
    app \in UoWApps =>
        /\ tokens = {} /\ now = 0 => added.session = NoSession
        /\ \A e1, e2 \in tokens : e1.block # e2.block => e1.session # e2.session

\* C19: global_template services: every access to a repository of the
\* Unit of Work and every uow.commit() of a service operation happens
\* inside the active `async with` block, so no request ends with the
\* RuntimeError of an uninitialised UnitOfWork or session.
C19_NoRequestHitsRuntimeError ==
    (app = "global_template" /\ ~Idle) => last.raised # "RuntimeError"

====
